---- MODULE Spec2Model ----
(***************************************************************************)
(* State-machine model of the user-auth-service                            *)
(* (src/services/user-auth-service/main.go): the account store behind the  *)
(* "users" collection, the register / login / refresh / logout / profile   *)
(* handlers, token issuance (generateTokens) and the request gate          *)
(* (authMiddleware) with the token parser it calls; of the reserve and     *)
(* release handlers of the inventory-service                               *)
(* (src/services/inventory-service/main.go); and of the add-item and       *)
(* remove-item routes of the cart-service                                  *)
(* (src/services/cart-service/index.js).                                   *)
(***************************************************************************)
EXTENDS Integers, Sequences, FiniteSets, Bags, TLC

VARIABLES
    index,      \* outcome of createIndexes: "boot" | "unique" | "absent"
    jwtSecret,  \* authService.jwtSecret
    users,      \* documents of the "users" collection, in natural order
    nextOid,    \* the store's ObjectID generator
    clock,      \* time.Now(), in whole seconds
    ticks,      \* number of clock advances so far (bounds the run)
    reg,        \* bag of the register requests in flight (hashed, not yet inserted)
    regStats,   \* per email: register requests bound, answered 201, answered 409
    issued,     \* every token generateTokens has returned so far
    gens,       \* number of generateTokens calls so far (bounds the run)
    ctxs,       \* the router's gin.Context objects: one per request being served
    inventory,  \* inventory-service: the "inventory" collection, by product_id
    invOps,     \* inventory-service: requests answered so far (bounds the run)
    invLast,    \* inventory-service: the request that completed last
    cart,       \* cart-service: the "carts" document of one user, or NoCart
    cartAdds,   \* cart-service: add-item requests so far (bounds the run)
    removing,   \* cart-service: bag of remove-item requests between findOne and updateOne
    cartLast,   \* cart-service: the request that completed last
    last        \* the request that completed last, with its response

\* the state of the inventory-service and of the cart-service
shopVars == <<inventory, invOps, invLast, cart, cartAdds, removing, cartLast>>

\* the state of the user-auth-service
authVars == <<index, jwtSecret, users, nextOid, clock, ticks, reg, regStats,
              issued, gens, ctxs, last>>

vars == <<index, jwtSecret, users, nextOid, clock, ticks, reg, regStats, issued,
          gens, ctxs, last, inventory, invOps, invLast, cart, cartAdds, removing,
          cartLast>>

-----------------------------------------------------------------------------
(* Bounds of the model *)

MaxInFlight == 2    \* requests of one kind that may be in flight together
MaxRegs     == 2    \* register requests that pass binding, over a run
MaxIssue    == 2    \* generateTokens calls over a run
MaxTicks    == 1    \* clock advances over a run
MaxSkew     == 1    \* seconds that may pass inside one generateTokens call
MaxStock    == 2    \* quantity of the inventory record at the start
MaxStockOps == 3    \* reserve and release requests over a run
MaxAdds     == 3    \* add-item requests over a run

-----------------------------------------------------------------------------
(* Program constants *)

AccessTTL  == 900       \* 15 * time.Minute, in seconds
RefreshTTL == 604800    \* 7 * 24 * time.Hour, in seconds
RegisterMinPassword == 8
LoginMinPassword    == 6

DefaultSecret == "your-secret-key-change-in-production"
EnvSecret     == "value-of-JWT_SECRET"
OtherKey      == "some-other-key"

-----------------------------------------------------------------------------
(* Request inputs *)

Emails      == {"a@x.com", "b@x.com", "not-an-email"}
ValidEmails == {"a@x.com", "b@x.com"}
Passwords   == {"secret123", "other1234", "seven77", "abc"}
RegNames    == {"Ann", ""}
NewNames    == {"Bob", ""}

\* number of characters of each sample password (validator "min" counts runes)
PasswordLen(p) ==
    CASE p = "secret123" -> 9
      [] p = "other1234" -> 9
      [] p = "seven77"   -> 7
      [] p = "abc"       -> 3
      [] OTHER           -> 0

\* validator tag "email" on the sample addresses
IsEmail(e) == e \in ValidEmails

-----------------------------------------------------------------------------
(* BSON / JSON values: a value carries its type *)

\* hexadecimal form of the n-th ObjectID the store generates
ObjectIDHex(n) ==
    CASE n = 1 -> "65a000000000000000000001"
      [] n = 2 -> "65a000000000000000000002"
      [] n = 3 -> "65a000000000000000000003"
      [] n = 4 -> "65a000000000000000000004"
      [] OTHER -> "65a000000000000000000005"

Str(s)  == [type |-> "string",   val |-> s]
Oid(n)  == [type |-> "objectID", val |-> ObjectIDHex(n)]
Absent  == [type |-> "absent",   val |-> ""]

\* User.ID is a Go string: decoding an ObjectID _id yields its hex string
DecodeID(v) == v.val

\* encoding/json of result.InsertedID (an ObjectID): its hex string
MarshalInsertedID(v) == v.val

\* bson.M{"_id": userID} with a Go string compares as a BSON string
IDFilter(userID) == Str(userID)

\* c.GetString(key): the value if it is a string, "" otherwise
GetString(v) == IF v.type = "string" THEN v.val ELSE ""

-----------------------------------------------------------------------------
(* bcrypt *)

\* bcrypt.GenerateFromPassword(password, bcrypt.DefaultCost): an opaque hash
\* of pw (its random salt is not modelled: no handler reads it)
GenerateFromPassword(pw) == [of |-> pw, cost |-> "DefaultCost"]

CompareHashAndPassword(hash, pw) == hash.of = pw

-----------------------------------------------------------------------------
(* Request binding (gin ShouldBindJSON with validator tags) *)

RegisterBind_NoName(email, pw, name) ==
    (IF email = "" \/ ~IsEmail(email) THEN <<"Email">> ELSE <<>>)
    \o (IF pw = "" \/ PasswordLen(pw) < RegisterMinPassword
        THEN <<"Password">> ELSE <<>>)

\* register: email required,email; password required,min=8; name required.
\* The result is the list of fields that fail (err.Error() names them).
RegisterBind(email, pw, name) ==
    (IF email = "" \/ ~IsEmail(email) THEN <<"Email">> ELSE <<>>)
    \o (IF pw = "" \/ PasswordLen(pw) < RegisterMinPassword
        THEN <<"Password">> ELSE <<>>)
    \o (IF name = "" THEN <<"Name">> ELSE <<>>)

\* login (LoginRequest): email required,email; password required,min=6
LoginBind(email, pw) ==
    (IF email = "" \/ ~IsEmail(email) THEN <<"Email">> ELSE <<>>)
    \o (IF pw = "" \/ PasswordLen(pw) < LoginMinPassword
        THEN <<"Password">> ELSE <<>>)

-----------------------------------------------------------------------------
(* Tokens.  A compact JWT is header.payload.signature; the signature segment *)
(* is the base64url text of the MAC.  An HS256 MAC is 32 bytes, 43         *)
(* characters of text, and the last character carries two bits that encode   *)
(* nothing (pad, 0 as the encoder writes them).                              *)

NullClaims == [sub |-> Absent, email |-> Absent, role |-> Absent, exp |-> 0, iat |-> 0]
NullMac    == [alg |-> "", key |-> "", hdr |-> "", claims |-> NullClaims]
NullToken  == [fmt |-> "empty", alg |-> "", claims |-> NullClaims, mac |-> NullMac, pad |-> 0]
Garbage    == [NullToken EXCEPT !.fmt = "garbage"]

\* MAC of the signing input (header "." payload) under alg and key
HMAC(alg, key, hdr, claims) == [alg |-> alg, key |-> key, hdr |-> hdr, claims |-> claims]

\* jwt.NewWithClaims(method, claims).SignedString(key)
SignedString(alg, key, claims) ==
    [fmt |-> "jwt", alg |-> alg, claims |-> claims,
     mac |-> HMAC(alg, key, alg, claims), pad |-> 0]

AccessTokenExpiry_Wrong(t) == t + RefreshTTL

\* time.Now().Add(15 * time.Minute).Unix()
AccessTokenExpiry(t) == t + AccessTTL

\* time.Now().Add(7 * 24 * time.Hour).Unix()
RefreshTokenExpiry(t) == t + RefreshTTL

\* generateTokens; r holds the four readings of time.Now() in program order:
\* r[1] for accessTokenExpiry, r[2] for refreshTokenExpiry, r[3] for the access
\* token's iat, r[4] for the refresh token's iat
generateTokens(userID, email, role, secret, r) ==
    [access  |-> SignedString("HS256", secret,
                    [sub |-> Str(userID), email |-> Str(email), role |-> Str(role),
                     exp |-> AccessTokenExpiry(r[1]), iat |-> r[3]]),
     refresh |-> SignedString("HS256", secret,
                    [sub |-> Str(userID), email |-> Str(email), role |-> Str(role),
                     exp |-> RefreshTokenExpiry(r[2]), iat |-> r[4]]),
     expires_in |-> AccessTokenExpiry(r[1])]

\* the readings of the clock a generateTokens call starting at time t may make
\* when at most skew seconds pass during the call
Readings(t, skew) ==
    {r \in [1..4 -> t..(t + skew)] :
        r[1] = t /\ r[1] <= r[2] /\ r[2] <= r[3] /\ r[3] <= r[4]}

-----------------------------------------------------------------------------
(* jwt.Parse(tokenString, keyFunc) with the default parser options *)

SigningMethods == {"HS256", "HS384", "HS512", "RS256", "none"}
HMACMethods    == {"HS256", "HS384", "HS512"}

\* Parser.DecodeSegment on the signature: base64.RawURLEncoding, not strict,
\* so the unused bits of the last character are dropped unchecked
DecodeSegment(tok) == tok.mac

NotExpired_Lax(now, exp) == now <= exp

\* Validator.verifyExpiresAt with no leeway: now.Before(exp)
NotExpired(now, exp) == now < exp

\* The key function returns []byte(jwtSecret) whatever the header says: every
\* HMAC method accepts that key, "none" and the asymmetric methods refuse it.
Parse(tok, secret, now) ==
    IF tok.fmt # "jwt" THEN "malformed"
    ELSE IF tok.alg \notin SigningMethods THEN "unverifiable"
    ELSE IF tok.alg \notin HMACMethods THEN "unverifiable"
    ELSE IF DecodeSegment(tok) # HMAC(tok.alg, secret, tok.alg, tok.claims)
         THEN "signature_invalid"
    ELSE IF ~NotExpired(now, tok.claims.exp) THEN "expired"
    ELSE "valid"

-----------------------------------------------------------------------------
(* Tokens a caller may present, built from the tokens issued so far *)

TamperRole(t) == [t EXCEPT !.claims.role = Str("admin")]
TamperPad(t, p) == [t EXCEPT !.pad = p]
SwitchAlg(t, a) == [t EXCEPT !.alg = a]
StripSignature(t) == [t EXCEPT !.alg = "none", !.mac = NullMac]
ReSign(t, a, k) == SignedString(a, k, t.claims)
DropSub(t) == [t EXCEPT !.claims.sub = Absent]

\* What can be made of an issued token t.  Without the secret: t itself, t
\* with the lowest pad bit set, with the signature removed, with another
\* header, with the role changed, and signed again with another key.  By a
\* holder of the secret (a peer service, or anyone when the secret is the
\* default): t signed under another method, and t without its sub claim.
Forms(t, secret) ==
    {t, StripSignature(t), SwitchAlg(t, "HS384"), TamperRole(t), TamperPad(t, 1)}
    \cup {ReSign(t, "HS256", OtherKey), ReSign(TamperRole(t), "HS256", OtherKey)}
    \cup {ReSign(t, a, secret) : a \in {"HS384", "RS256"}}
    \cup {ReSign(DropSub(t), "HS256", secret)}

Presentable(secret) == {Garbage} \cup UNION {Forms(t, secret) : t \in issued}

-----------------------------------------------------------------------------
(* Responses *)

MarshalUser_WithPassword(u) ==
    [id |-> DecodeID(u._id), email |-> u.email, role |-> u.role, name |-> u.name,
     active |-> u.active, created_at |-> u.created_at, password |-> u.password]

\* encoding/json of a User: the fields by their json tags; Password is tagged
\* json:"-" and is left out
MarshalUser(u) ==
    [id |-> DecodeID(u._id), email |-> u.email, role |-> u.role, name |-> u.name,
     active |-> u.active, created_at |-> u.created_at]

\* no User in the body
NullProfile ==
    [id |-> "", email |-> "", role |-> "", name |-> "", active |-> FALSE,
     created_at |-> 0]

Resp0 ==
    [op |-> "none", status |-> 0, error |-> <<>>,
     email |-> "", password |-> "", name |-> "", user_id |-> "",
     access |-> NullToken, refresh |-> NullToken, expires_in |-> 0,
     header |-> "absent", token |-> NullToken, now |-> 0,
     verified |-> FALSE, handlerRan |-> FALSE, touched |-> FALSE,
     present |-> FALSE, changed |-> FALSE, panic |-> FALSE,
     reads |-> <<0, 0, 0, 0>>,
     ctx |-> [user_id |-> Absent, email |-> Absent, role |-> Absent],
     profile |-> NullProfile, storeErr |-> FALSE]

-----------------------------------------------------------------------------
(* The store: the "users" collection *)

HasEmail(email) == \E i \in 1..Len(users) : users[i].email = email

\* the unique index on email rejects the insert; without the index nothing does
DuplicateKey(email) == index = "unique" /\ HasEmail(email)

\* FindOne(filter): the first matching document in natural order, 0 if none
FindByEmail(email) ==
    IF HasEmail(email)
    THEN CHOOSE i \in 1..Len(users) :
            /\ users[i].email = email
            /\ \A j \in 1..(i - 1) : users[j].email # email
    ELSE 0

FindByID(idv) ==
    IF \E i \in 1..Len(users) : users[i]._id = idv
    THEN CHOOSE i \in 1..Len(users) : users[i]._id = idv
    ELSE 0

UpdateName_Everyone(idv, name) ==
    [i \in 1..Len(users) |-> [users[i] EXCEPT !.name = name]]

\* UpdateOne(filter {_id}, $set {name}): the collection afterwards
UpdateName(idv, name) ==
    [i \in 1..Len(users) |->
        IF i = FindByID(idv) THEN [users[i] EXCEPT !.name = name] ELSE users[i]]

-----------------------------------------------------------------------------
(* inventory-service *)

Products == {"p1"}

\* the productId path parameters of the requests: a product with a record
\* and one without
ProductIDs == {"p1", "p9"}

\* the quantities of the request bodies; binding "required" refuses only the
\* zero value
Quantities == {-1, 0, 1, 2}

InvResp0 == [op |-> "none", status |-> 0, product |-> "", quantity |-> 0,
             matched |-> FALSE, before |-> [quantity |-> 0, reserved |-> 0]]

\* ShouldBindJSON with binding:"required" on an int
QuantityBinds(q) == q # 0

\* the filter of reserveInventory: the product's record, if its quantity is
\* at least the requested one
ReserveFilter(p, q) == p \in Products /\ inventory[p].quantity >= q

\* PUT /api/v1/inventory/:productId/reserve
reserveInventory ==
    /\ invOps < MaxStockOps
    /\ \E p \in ProductIDs, q \in Quantities :
         LET base == [InvResp0 EXCEPT !.op = "reserve", !.product = p,
                                      !.quantity = q]
         IN IF ~QuantityBinds(q)
            THEN /\ invLast' = [base EXCEPT !.status = 400]
                 /\ UNCHANGED inventory
            ELSE IF ~ReserveFilter(p, q)
            THEN /\ invLast' = [base EXCEPT !.status = 409]
                 /\ UNCHANGED inventory
            ELSE /\ inventory' = [inventory EXCEPT
                                     ![p].quantity = @ - q, ![p].reserved = @ + q]
                 /\ invLast' = [base EXCEPT !.status = 200, !.matched = TRUE,
                                            !.before = inventory[p]]
    /\ invOps' = invOps + 1
    /\ UNCHANGED <<authVars, cart, cartAdds, removing, cartLast>>

\* PUT /api/v1/inventory/:productId/release
releaseInventory ==
    /\ invOps < MaxStockOps
    /\ \E p \in ProductIDs, q \in Quantities :
         LET base == [InvResp0 EXCEPT !.op = "release", !.product = p,
                                      !.quantity = q]
         IN IF ~QuantityBinds(q)
            THEN /\ invLast' = [base EXCEPT !.status = 400]
                 /\ UNCHANGED inventory
            ELSE IF p \notin Products
            THEN /\ invLast' = [base EXCEPT !.status = 200]
                 /\ UNCHANGED inventory
            ELSE /\ inventory' = [inventory EXCEPT
                                     ![p].quantity = @ + q, ![p].reserved = @ - q]
                 /\ invLast' = [base EXCEPT !.status = 200, !.matched = TRUE,
                                            !.before = inventory[p]]
    /\ invOps' = invOps + 1
    /\ UNCHANGED <<authVars, cart, cartAdds, removing, cartLast>>

-----------------------------------------------------------------------------
(* cart-service *)

NoCart == [exists |-> FALSE, items |-> <<>>, total |-> 0]

NoItem == [productId |-> "", quantity |-> 0, price |-> 0]

CartProducts == {"p1", "p2"}
CartQuantities == {1, 2}
CartPrices == {3, 5}

CartResp0 == [op |-> "none", status |-> 0, productId |-> "", hadCart |-> FALSE]

\* cart.items.find(i => i.productId === productId): the first such item
FindItem(items, productId) ==
    IF \E i \in 1..Len(items) : items[i].productId = productId
    THEN items[CHOOSE i \in 1..Len(items) :
                  /\ items[i].productId = productId
                  /\ \A j \in 1..(i - 1) : items[j].productId # productId]
    ELSE NoItem

\* $pull: { items: { productId } }: every item with that productId goes
Pull(items, productId) == SelectSeq(items, LAMBDA it : it.productId # productId)

\* POST /api/v1/carts/:userId/items: one updateOne with $push, $inc and upsert
addItem ==
    /\ cartAdds < MaxAdds
    /\ \E productId \in CartProducts, quantity \in CartQuantities,
          price \in CartPrices :
         /\ cart' = [exists |-> TRUE,
                     items |-> Append(cart.items,
                                 [productId |-> productId, quantity |-> quantity,
                                  price |-> price]),
                     total |-> cart.total + quantity * price]
         /\ cartLast' = [CartResp0 EXCEPT !.op = "add", !.status = 200,
                                          !.productId = productId,
                                          !.hadCart = cart.exists]
    /\ cartAdds' = cartAdds + 1
    /\ UNCHANGED <<authVars, inventory, invOps, invLast, removing>>

\* DELETE /api/v1/carts/:userId/items/:productId, up to the second store
\* call: findOne, then cart.items.find; reading items of a null cart throws
\* and the catch answers 500
removeItemFind ==
    /\ BagCardinality(removing) < MaxInFlight
    /\ \E productId \in CartProducts :
         IF ~cart.exists
         THEN /\ cartLast' = [CartResp0 EXCEPT !.op = "remove", !.status = 500,
                                               !.productId = productId]
              /\ UNCHANGED removing
         ELSE /\ removing' = removing (+) SetToBag(
                    {[productId |-> productId,
                      item |-> FindItem(cart.items, productId)]})
              /\ UNCHANGED cartLast
    /\ UNCHANGED <<authVars, inventory, invOps, invLast, cart, cartAdds>>

\* DELETE ..., from the second store call on: updateOne with $pull and $inc
\* if an item was found, then the answer
removeItemUpdate ==
    /\ \E r \in BagToSet(removing) :
         /\ IF r.item # NoItem /\ cart.exists
            THEN cart' = [cart EXCEPT
                            !.items = Pull(@, r.productId),
                            !.total = @ - r.item.quantity * r.item.price]
            ELSE UNCHANGED cart
         /\ removing' = removing (-) SetToBag({r})
         /\ cartLast' = [CartResp0 EXCEPT !.op = "remove", !.status = 200,
                                          !.productId = r.productId,
                                          !.hadCart = TRUE]
    /\ UNCHANGED <<authVars, inventory, invOps, invLast, cartAdds>>

\* both services at start: one inventory record with nothing reserved, no cart
InitShop ==
    /\ inventory = [p \in Products |-> [quantity |-> MaxStock, reserved |-> 0]]
    /\ invOps = 0
    /\ invLast = InvResp0
    /\ cart = NoCart
    /\ cartAdds = 0
    /\ removing = EmptyBag
    /\ cartLast = CartResp0

-----------------------------------------------------------------------------
(* Request contexts *)

\* c.Keys with none of the gate's keys set
NoContext == [user_id |-> Absent, email |-> Absent, role |-> Absent]

\* a gin.Context in the router's pool, serving no request
NewContext == [state |-> "free", op |-> "none", header |-> "absent",
               token |-> NullToken, keys |-> NoContext]

ContextKeys_Shared(k) == ctxs[1].keys

\* the keys a handler reads with c.GetString: those of its own request's context
ContextKeys(k) == ctxs[k].keys

-----------------------------------------------------------------------------
Init ==
    /\ index = "boot"
    /\ jwtSecret \in {EnvSecret, DefaultSecret}
    /\ users = <<>>
    /\ nextOid = 1
    /\ clock = 0
    /\ ticks = 0
    /\ reg = EmptyBag
    /\ regStats = [e \in ValidEmails |-> [started |-> 0, ok |-> 0, dup |-> 0]]
    /\ issued = {}
    /\ gens = 0
    /\ ctxs = [k \in 1..MaxInFlight |-> NewContext]
    /\ last = Resp0
    /\ InitShop

\* createIndexes: a failure of CreateOne is logged and the service starts anyway
createIndexes(outcomes) ==
    /\ index = "boot"
    /\ \E ok \in outcomes : index' = IF ok THEN "unique" ELSE "absent"
    /\ UNCHANGED <<shopVars, ctxs, jwtSecret, users, nextOid, clock, ticks, reg, regStats, issued,
                   gens, last>>

\* time passes between requests
Tick(steps) ==
    /\ index # "boot"
    /\ ticks < MaxTicks
    /\ \E d \in steps : clock' = clock + d
    /\ ticks' = ticks + 1
    /\ UNCHANGED <<shopVars, ctxs, index, jwtSecret, users, nextOid, reg, regStats, issued, gens,
                   last>>

Started == regStats["a@x.com"].started + regStats["b@x.com"].started

\* register, up to the store call: bind the body, hash the password, build the
\* User value
registerBind(emails, pws, names, limit) ==
    /\ index # "boot"
    /\ \E email \in emails, pw \in pws, name \in names :
         LET errs == RegisterBind(email, pw, name) IN
         IF errs # <<>>
         THEN /\ last' = [Resp0 EXCEPT !.op = "register", !.status = 400, !.error = errs]
              /\ UNCHANGED <<reg, regStats>>
         ELSE /\ Started < limit
              /\ BagCardinality(reg) < MaxInFlight
              /\ reg' = reg (+) SetToBag(
                          {[email |-> email,
                            password |-> GenerateFromPassword(pw),
                            name |-> name, created_at |-> clock]})
              /\ regStats' = [regStats EXCEPT ![email].started = @ + 1]
              /\ UNCHANGED last
    /\ UNCHANGED <<shopVars, ctxs, index, jwtSecret, users, nextOid, clock, ticks, issued, gens>>

\* register, from the store call on: InsertOne and the response
registerInsert ==
    \E r \in BagToSet(reg) :
      /\ LET id == Oid(nextOid)
             base == [Resp0 EXCEPT !.op = "register", !.email = r.email,
                                   !.password = r.password.of, !.name = r.name,
                                   !.touched = TRUE, !.present = HasEmail(r.email)]
         IN IF DuplicateKey(r.email)
            THEN /\ last' = [base EXCEPT !.status = 409,
                                         !.error = <<"Email already exists">>]
                 /\ regStats' = [regStats EXCEPT ![r.email].dup = @ + 1]
                 /\ UNCHANGED <<users, nextOid>>
            ELSE /\ users' = Append(users,
                       [_id |-> id, email |-> r.email, password |-> r.password,
                        role |-> "customer", name |-> r.name, active |-> TRUE,
                        created_at |-> r.created_at])
                 /\ nextOid' = nextOid + 1
                 /\ last' = [base EXCEPT !.status = 201,
                                         !.user_id = MarshalInsertedID(id),
                                         !.changed = TRUE]
                 /\ regStats' = [regStats EXCEPT ![r.email].ok = @ + 1]
      /\ reg' = reg (-) SetToBag({r})
      /\ UNCHANGED <<shopVars, ctxs, index, jwtSecret, clock, ticks, issued, gens>>

LoginNoAccount_NotFound == [status |-> 404, error |-> <<"User not found">>]

\* the answer of login when FindOne finds no document for the email
LoginNoAccount == [status |-> 401, error |-> <<"Invalid credentials">>]

\* the answer of login when the password does not match the stored hash
LoginWrongPassword == [status |-> 401, error |-> <<"Invalid credentials">>]

\* login up to the call of generateTokens: the error answer, or status 200 with
\* the index of the document the tokens are issued for
LoginAnswer(email, pw) ==
    LET errs == LoginBind(email, pw)
        i == FindByEmail(email)
    IN IF errs # <<>> THEN [status |-> 400, error |-> errs, doc |-> 0]
       ELSE IF i = 0
            THEN [status |-> LoginNoAccount.status, error |-> LoginNoAccount.error,
                  doc |-> 0]
       ELSE IF ~CompareHashAndPassword(users[i].password, pw)
            THEN [status |-> LoginWrongPassword.status,
                  error |-> LoginWrongPassword.error, doc |-> 0]
       ELSE [status |-> 200, error |-> <<>>, doc |-> i]

\* login
login(emails, pws, skew) ==
    /\ index # "boot"
    /\ \E email \in emails, pw \in pws :
         LET a == LoginAnswer(email, pw)
             base == [Resp0 EXCEPT !.op = "login", !.status = a.status,
                                   !.error = a.error, !.touched = a.status # 400]
         IN
         IF a.status # 200
         THEN /\ last' = IF a.status = 400 THEN base
                         ELSE [base EXCEPT !.email = email, !.password = pw]
              /\ UNCHANGED <<clock, issued, gens>>
         ELSE /\ gens < MaxIssue
              /\ \E r \in Readings(clock, skew) :
                   LET u == users[a.doc]
                       t == generateTokens(DecodeID(u._id), u.email, u.role,
                                           jwtSecret, r)
                   IN /\ last' = [base EXCEPT !.email = email, !.password = pw,
                                              !.access = t.access,
                                              !.refresh = t.refresh,
                                              !.expires_in = t.expires_in,
                                              !.now = r[4], !.reads = r]
                      /\ issued' = issued \cup {t.access, t.refresh}
                      /\ clock' = r[4]
              /\ gens' = gens + 1
    /\ UNCHANGED <<shopVars, ctxs, index, jwtSecret, users, nextOid, ticks, reg, regStats>>

-----------------------------------------------------------------------------
(* The request gate and the handlers behind it *)

\* authMiddleware on a request whose Authorization header is of kind h and
\* carries tok after its first 7 characters.  router is gin.Default(): a panic
\* is recovered and answered with status 500.
authMiddleware(h, tok, secret, now) ==
    IF h = "absent"
    THEN [pass |-> FALSE, status |-> 401, error |-> <<"Missing authorization header">>,
          panic |-> FALSE, ctx |-> NoContext]
    ELSE IF h = "short"
    THEN [pass |-> FALSE, status |-> 500, error |-> <<>>,
          panic |-> TRUE, ctx |-> NoContext]
    ELSE IF Parse(tok, secret, now) # "valid"
    THEN [pass |-> FALSE, status |-> 401, error |-> <<"Invalid token">>,
          panic |-> FALSE, ctx |-> NoContext]
    ELSE [pass |-> TRUE, status |-> 0, error |-> <<>>, panic |-> FALSE,
          ctx |-> [user_id |-> tok.claims.sub, email |-> tok.claims.email,
                   role |-> tok.claims.role]]

\* the endpoints behind authMiddleware
GateOps  == {"getProfile", "updateProfile"}

\* The requests a caller may send to a protected endpoint, by Authorization
\* header: absent, shorter than the 7-character prefix, "Bearer " + token, or
\* another 7-character prefix + token.
GateRequests ==
    {<<h, NullToken>> : h \in {"absent", "short"}}
    \cup {<<"bearer", t>> : t \in Presentable(jwtSecret)}
    \cup {<<"other7", t>> : t \in issued}

\* the record of a gated request; the token is kept when it was accepted or
\* is one the service issued
Gated(op, q, g) ==
    [Resp0 EXCEPT !.op = op, !.header = q[1], !.now = clock,
                  !.token = IF g.pass \/ q[2] \in issued THEN q[2] ELSE NullToken,
                  !.status = g.status, !.error = g.error, !.panic = g.panic,
                  !.verified = g.pass]

\* the handler getProfile on a request whose context holds keys; base is the
\* record of the request so far
ProfileAnswer(base, keys) ==
    LET userID == GetString(keys.user_id)
        i == FindByID(IDFilter(userID))
    IN IF i = 0
       THEN [base EXCEPT !.handlerRan = TRUE, !.touched = TRUE, !.ctx = keys,
                         !.status = 404, !.error = <<"User not found">>]
       ELSE [base EXCEPT !.handlerRan = TRUE, !.touched = TRUE, !.ctx = keys,
                         !.status = 200,
                         !.user_id = DecodeID(users[i]._id),
                         !.email = users[i].email, !.name = users[i].name,
                         !.profile = MarshalUser(users[i])]

\* GET /api/v1/auth/profile: authMiddleware, then getProfile
getProfile ==
    /\ index # "boot"
    /\ \E q \in GateRequests :
         LET g == authMiddleware(q[1], q[2], jwtSecret, clock)
         IN last' =
              IF ~g.pass THEN Gated("getProfile", q, g)
              ELSE ProfileAnswer(Gated("getProfile", q, g), g.ctx)
    /\ UNCHANGED <<shopVars, ctxs, index, jwtSecret, users, nextOid, clock, ticks, reg, regStats,
                   issued, gens>>

\* PUT /api/v1/auth/profile: authMiddleware, then updateProfile
updateProfile(names) ==
    /\ index # "boot"
    /\ \E q \in GateRequests, name \in names :
         LET g == authMiddleware(q[1], q[2], jwtSecret, clock)
             userID == GetString(g.ctx.user_id)
         IN IF ~g.pass
            THEN /\ last' = Gated("updateProfile", q, g)
                 /\ UNCHANGED users
            ELSE /\ users' = UpdateName(IDFilter(userID), name)
                 /\ last' = [Gated("updateProfile", q, g) EXCEPT
                                !.handlerRan = TRUE, !.touched = TRUE,
                                !.ctx = g.ctx,
                                !.status = 200, !.name = name,
                                !.changed = (users' # users)]
    /\ UNCHANGED <<shopVars, ctxs, index, jwtSecret, nextOid, clock, ticks, reg, regStats, issued,
                   gens>>

StringClaims(c) ==
    c.sub.type = "string" /\ c.email.type = "string" /\ c.role.type = "string"

RefreshOutcome_OneShot(tok, now) ==
    IF tok.fmt = "empty" THEN "unbound"
    ELSE IF Parse(tok, jwtSecret, now) # "valid" THEN "invalid"
    ELSE IF last.op = "refresh" /\ last.status = 200 /\ last.token = tok
         THEN "invalid"
    ELSE IF ~StringClaims(tok.claims) THEN "panic"
    ELSE "ok"

\* refreshToken up to the call of generateTokens: the body does not bind, the
\* token does not verify, a claim is not a string (the unchecked assertion
\* panics), or the handler goes on to issue a pair
RefreshOutcome(tok, now) ==
    IF tok.fmt = "empty" THEN "unbound"
    ELSE IF Parse(tok, jwtSecret, now) # "valid" THEN "invalid"
    ELSE IF ~StringClaims(tok.claims) THEN "panic"
    ELSE "ok"

\* POST /api/v1/auth/refresh; the body carries no token, or one of toks
refreshToken(toks, skew) ==
    /\ index # "boot"
    /\ \E tok \in {NullToken} \cup toks :
         LET base == [Resp0 EXCEPT !.op = "refresh", !.now = clock,
                                   !.token = IF tok \in issued THEN tok ELSE NullToken]
             c == tok.claims
         IN
         IF RefreshOutcome(tok, clock) = "unbound"
         THEN /\ last' = [base EXCEPT !.status = 400, !.error = <<"RefreshToken">>]
              /\ UNCHANGED <<clock, issued, gens>>
         ELSE IF RefreshOutcome(tok, clock) = "invalid"
         THEN /\ last' = [base EXCEPT !.status = 401,
                                      !.error = <<"Invalid refresh token">>]
              /\ UNCHANGED <<clock, issued, gens>>
         ELSE IF RefreshOutcome(tok, clock) = "panic"
         THEN /\ last' = [base EXCEPT !.status = 500, !.panic = TRUE,
                                      !.verified = TRUE, !.token = tok]
              /\ UNCHANGED <<clock, issued, gens>>
         ELSE /\ gens < MaxIssue
              /\ \E r \in Readings(clock, skew) :
                   LET t == generateTokens(c.sub.val, c.email.val, c.role.val,
                                           jwtSecret, r)
                   IN /\ last' = [base EXCEPT !.status = 200, !.verified = TRUE,
                                              !.token = tok,
                                              !.access = t.access,
                                              !.refresh = t.refresh,
                                              !.expires_in = t.expires_in,
                                              !.reads = r]
                      /\ issued' = issued \cup {t.access, t.refresh}
                      /\ clock' = r[4]
              /\ gens' = gens + 1
    /\ UNCHANGED <<shopVars, ctxs, index, jwtSecret, users, nextOid, ticks, reg, regStats>>

logout_Rotates ==
    /\ index # "boot"
    /\ last' = [Resp0 EXCEPT !.op = "logout", !.status = 200]
    /\ jwtSecret' = OtherKey
    /\ UNCHANGED <<shopVars, ctxs, index, users, nextOid, clock, ticks, reg, regStats, issued, gens>>

\* POST /api/v1/auth/logout
logout ==
    /\ index # "boot"
    /\ last' = [Resp0 EXCEPT !.op = "logout", !.status = 200]
    /\ UNCHANGED <<shopVars, ctxs, index, jwtSecret, users, nextOid, clock, ticks, reg, regStats,
                   issued, gens>>

-----------------------------------------------------------------------------
(* Protected requests served concurrently: the router takes a gin.Context    *)
(* from its pool and resets it, authMiddleware runs, and the handler runs    *)
(* after c.Next(); other requests may run between the two.                  *)

\* a request of reqs enters: the context is reset and authMiddleware runs up
\* to its answer or to c.Next()
serveGate(ops, reqs) ==
    /\ index # "boot"
    /\ \E k \in 1..MaxInFlight, op \in ops, q \in reqs :
         /\ ctxs[k].state = "free"
         /\ LET g == authMiddleware(q[1], q[2], jwtSecret, clock)
            IN IF g.pass
               THEN /\ ctxs' = [ctxs EXCEPT ![k] =
                                  [state |-> "gated", op |-> op, header |-> q[1],
                                   token |-> q[2], keys |-> g.ctx]]
                    /\ UNCHANGED last
               ELSE /\ ctxs' = [ctxs EXCEPT ![k] = NewContext]
                    /\ last' = Gated(op, q, g)
    /\ UNCHANGED <<shopVars, index, jwtSecret, users, nextOid, clock, ticks, reg,
                   regStats, issued, gens>>

\* the handler of a request that passed the gate runs and the request ends;
\* the context goes back to the pool as it is
serveHandler(names) ==
    /\ \E k \in 1..MaxInFlight :
         /\ ctxs[k].state = "gated"
         /\ LET c == ctxs[k]
                keys == ContextKeys(k)
                base == [Resp0 EXCEPT !.op = c.op, !.header = c.header,
                                      !.now = clock, !.token = c.token,
                                      !.verified = TRUE]
            IN IF c.op = "getProfile"
               THEN /\ last' = ProfileAnswer(base, keys)
                    /\ UNCHANGED users
               ELSE \E name \in names :
                    /\ users' = UpdateName(IDFilter(GetString(keys.user_id)), name)
                    /\ last' = [base EXCEPT
                                   !.handlerRan = TRUE, !.touched = TRUE,
                                   !.ctx = keys,
                                   !.status = 200, !.name = name,
                                   !.changed = (users' # users)]
         /\ ctxs' = [ctxs EXCEPT ![k].state = "free"]
    /\ UNCHANGED <<shopVars, index, jwtSecret, nextOid, clock, ticks, reg, regStats,
                   issued, gens>>

-----------------------------------------------------------------------------
(* The handlers when the store call returns an error that is not about the   *)
(* data: the server cannot be reached or selected, the connection breaks.    *)
(* Every store call is made with context.Background().                       *)

\* register: InsertOne returns such an error; any error is answered 409
registerInsertFails ==
    /\ \E r \in BagToSet(reg) :
         /\ last' = [Resp0 EXCEPT !.op = "register", !.email = r.email,
                                  !.password = r.password.of, !.name = r.name,
                                  !.touched = TRUE, !.present = HasEmail(r.email),
                                  !.storeErr = TRUE, !.status = 409,
                                  !.error = <<"Email already exists">>]
         /\ regStats' = [regStats EXCEPT ![r.email].dup = @ + 1]
         /\ reg' = reg (-) SetToBag({r})
    /\ UNCHANGED <<shopVars, ctxs, index, jwtSecret, users, nextOid, clock, ticks, issued,
                   gens>>

\* login: FindOne(...).Decode returns such an error; any error is answered 401
loginFindFails(emails, pws) ==
    /\ index # "boot"
    /\ \E email \in emails, pw \in pws :
         /\ LoginBind(email, pw) = <<>>
         /\ last' = [Resp0 EXCEPT !.op = "login", !.email = email,
                                  !.password = pw, !.touched = TRUE,
                                  !.storeErr = TRUE, !.status = 401,
                                  !.error = <<"Invalid credentials">>]
    /\ UNCHANGED <<shopVars, ctxs, index, jwtSecret, users, nextOid, clock, ticks, reg,
                   regStats, issued, gens>>

\* getProfile behind the gate: FindOne(...).Decode returns such an error; any
\* error is answered 404
getProfileFindFails(reqs) ==
    /\ index # "boot"
    /\ \E q \in reqs :
         LET g == authMiddleware(q[1], q[2], jwtSecret, clock)
         IN /\ g.pass
            /\ last' = [Gated("getProfile", q, g) EXCEPT
                           !.handlerRan = TRUE, !.touched = TRUE, !.ctx = g.ctx,
                           !.storeErr = TRUE, !.status = 404,
                           !.error = <<"User not found">>]
    /\ UNCHANGED <<shopVars, ctxs, index, jwtSecret, users, nextOid, clock, ticks, reg,
                   regStats, issued, gens>>

\* updateProfile behind the gate: UpdateOne returns an error, answered 500
updateProfileFails(reqs, names) ==
    /\ index # "boot"
    /\ \E q \in reqs, name \in names :
         LET g == authMiddleware(q[1], q[2], jwtSecret, clock)
         IN /\ g.pass
            /\ last' = [Gated("updateProfile", q, g) EXCEPT
                           !.handlerRan = TRUE, !.touched = TRUE, !.ctx = g.ctx,
                           !.storeErr = TRUE, !.status = 500, !.name = name,
                           !.error = <<"Failed to update profile">>]
    /\ UNCHANGED <<shopVars, ctxs, index, jwtSecret, users, nextOid, clock, ticks, reg,
                   regStats, issued, gens>>

-----------------------------------------------------------------------------
(* Health endpoints *)

\* GET /health
healthCheck ==
    /\ last' = [Resp0 EXCEPT !.op = "health", !.status = 200, !.now = clock]
    /\ UNCHANGED <<shopVars, ctxs, index, jwtSecret, users, nextOid, clock, ticks, reg,
                   regStats, issued, gens>>

\* GET /ready: Ping with a 5 s timeout; a failure is answered 503 with
\* err.Error()
readinessCheck(outcomes) ==
    /\ \E up \in outcomes :
         last' = IF up THEN [Resp0 EXCEPT !.op = "ready", !.status = 200]
                 ELSE [Resp0 EXCEPT !.op = "ready", !.status = 503,
                                    !.error = <<"text of the Ping error">>,
                                    !.storeErr = TRUE]
    /\ UNCHANGED <<shopVars, ctxs, index, jwtSecret, users, nextOid, clock, ticks, reg,
                   regStats, issued, gens>>

-----------------------------------------------------------------------------
(* Specifications *)

Next ==
    \/ createIndexes(BOOLEAN)
    \/ Tick({AccessTTL - 1, AccessTTL, RefreshTTL})
    \/ registerBind(Emails, Passwords, RegNames, MaxRegs)
    \/ registerInsert
    \/ login(Emails, Passwords, MaxSkew)
    \/ refreshToken(Presentable(jwtSecret), MaxSkew)
    \/ logout
    \/ getProfile
    \/ updateProfile(NewNames)

\* the whole service
Spec == Init /\ [][Next]_vars

AccountsNext ==
    \/ createIndexes(BOOLEAN)
    \/ registerBind(Emails, Passwords, RegNames, MaxRegs)
    \/ registerInsert
    \/ login(Emails, Passwords, 0)

\* the account side of the service: start-up, register and login
SpecAccounts == Init /\ [][AccountsNext]_vars
TokensNext ==
    \/ createIndexes({TRUE})
    \/ Tick({AccessTTL - 1, AccessTTL, RefreshTTL})
    \/ registerBind({"a@x.com"}, {"secret123"}, {"Ann"}, 1)
    \/ registerInsert
    \/ login({"a@x.com"}, {"secret123"}, 0)
    \/ refreshToken(Presentable(jwtSecret), 0)
    \/ logout
    \/ getProfile
    \/ updateProfile({"Bob"})

\* the service started with JWT_SECRET set
InitEnv == Init /\ jwtSecret = EnvSecret

\* the token side of the service: one account, its tokens presented in every
\* form, and time passing between requests
SpecTokens == InitEnv /\ [][TokensNext]_vars

IssueNext ==
    \/ createIndexes({TRUE})
    \/ Tick({AccessTTL})
    \/ registerBind({"a@x.com"}, {"secret123"}, {"Ann"}, 1)
    \/ registerInsert
    \/ login({"a@x.com"}, {"secret123"}, MaxSkew)
    \/ refreshToken(issued, MaxSkew)

\* token issuance: one account, login and refresh with the tokens as issued,
\* and time passing between the clock readings of generateTokens
SpecIssue == InitEnv /\ [][IssueNext]_vars

\* an account the collection holds from before the service started, written
\* with a string _id (register itself never writes one: the driver gives its
\* documents an ObjectID)
Seed ==
    [_id |-> Str("seed-user-1"), email |-> "b@x.com",
     password |-> GenerateFromPassword("other1234"), role |-> "customer",
     name |-> "Sam", active |-> TRUE, created_at |-> 0]

\* the service started with JWT_SECRET set on a collection that holds Seed
InitSeeded ==
    /\ index = "boot"
    /\ jwtSecret = EnvSecret
    /\ users = <<Seed>>
    /\ nextOid = 1
    /\ clock = 0
    /\ ticks = 0
    /\ reg = EmptyBag
    /\ regStats = [e \in ValidEmails |-> [started |-> 0, ok |-> 0, dup |-> 0]]
    /\ issued = {}
    /\ gens = 0
    /\ ctxs = [k \in 1..MaxInFlight |-> NewContext]
    /\ last = Resp0
    /\ InitShop

\* the issued tokens that are the access token of their pair
AccessTokens == {t \in issued : t.claims.exp - t.claims.iat <= AccessTTL}

GateNext ==
    \/ createIndexes({TRUE})
    \/ registerBind({"a@x.com"}, {"secret123"}, {"Ann"}, 1)
    \/ registerInsert
    \/ login(ValidEmails, {"secret123", "other1234"}, 0)
    \/ serveGate(GateOps, {<<"absent", NullToken>>}
                              \cup {<<"bearer", t>> : t \in AccessTokens})
    \/ serveHandler({"Bob"})

\* protected requests of two accounts served concurrently
SpecGate == InitSeeded /\ [][GateNext]_vars

StoreNext ==
    \/ createIndexes({TRUE})
    \/ registerBind(ValidEmails, {"secret123"}, {"Ann"}, MaxRegs)
    \/ registerInsert
    \/ registerInsertFails
    \/ login(ValidEmails, {"secret123", "other1234"}, 0)
    \/ loginFindFails(ValidEmails, {"secret123"})
    \/ getProfile
    \/ getProfileFindFails({<<"bearer", t>> : t \in AccessTokens})
    \/ updateProfile({"Bob"})
    \/ updateProfileFails({<<"bearer", t>> : t \in AccessTokens}, {"Bob"})

\* the handlers that call the store, each with the store answering and with
\* the store call failing
SpecStore == InitEnv /\ [][StoreNext]_vars

InventoryNext ==
    \/ reserveInventory
    \/ releaseInventory

\* the inventory-service: reserve and release requests in any order
SpecInventory == InitEnv /\ [][InventoryNext]_vars

CartNext ==
    \/ addItem
    \/ removeItemFind
    \/ removeItemUpdate

\* the cart-service: add-item and remove-item requests on one user's cart,
\* the two store calls of remove-item interleaving with other requests
SpecCart == InitEnv /\ [][CartNext]_vars

ProfileNext ==
    \/ createIndexes({TRUE})
    \/ registerBind({"a@x.com", "not-an-email"}, {"secret123", "abc"}, {"Ann"}, 1)
    \/ registerInsert
    \/ login(ValidEmails, {"secret123", "other1234"}, 0)
    \/ refreshToken(issued, 0)
    \/ logout
    \/ getProfile
    \/ updateProfile({"Bob"})
    \/ healthCheck
    \/ readinessCheck(BOOLEAN)

\* every endpoint, on a collection that holds one account register wrote and
\* one it did not
SpecProfile == InitSeeded /\ [][ProfileNext]_vars

-----------------------------------------------------------------------------
(* Claims about registration and login (SpecAccounts) *)

InFlight(e) == \E r \in BagToSet(reg) : r.email = e
Accounts(e) == {i \in 1..Len(users) : users[i].email = e}

\* C1: once every register request for an email has been answered, exactly
\* one of them was answered 201, all the others 409, and the store holds
\* exactly one account for that email.
C1_ExactlyOneRegistration ==
    \A e \in ValidEmails :
        (regStats[e].started > 0 /\ ~InFlight(e)) =>
            /\ regStats[e].ok = 1
            /\ regStats[e].dup = regStats[e].started - 1
            /\ Cardinality(Accounts(e)) = 1

\* C2: no two accounts share an email, and a register call whose email is
\* already in the store is answered 409 and leaves the store as it was,
\* whatever createIndexes reported.
C2_EmailUniqueAndDuplicateAtomic ==
    /\ \A i, j \in 1..Len(users) : users[i].email = users[j].email => i = j
    /\ (last.op = "register" /\ last.present) =>
           (last.status = 409 /\ ~last.changed)

WrongPasswordLogin(e, p) ==
    /\ HasEmail(e)
    /\ \A i \in Accounts(e) : ~CompareHashAndPassword(users[i].password, p)

SameAnswer(a, b) == a.status = b.status /\ a.error = b.error

\* C3 (as stated): every login with an existing email and a wrong password
\* and every login with an email that has no account get the same status
\* and the same body.
C3_SameAnswerForEveryRequest ==
    \A e1 \in Emails, e2 \in Emails, p1 \in Passwords, p2 \in Passwords :
        (WrongPasswordLogin(e1, p1) /\ ~HasEmail(e2)) =>
            SameAnswer(LoginAnswer(e1, p1), LoginAnswer(e2, p2))

\* C3 (amended): among the login requests that pass binding, a wrong
\* password and an unknown email get the same answer, 401 "Invalid
\* credentials"; a request that fails binding is answered 400 before the
\* store is read, whether or not the account exists.
C3_SameAnswerWhenBound ==
    /\ \A e1 \in Emails, e2 \in Emails, p1 \in Passwords, p2 \in Passwords :
        (/\ WrongPasswordLogin(e1, p1) /\ ~HasEmail(e2)
         /\ LoginBind(e1, p1) = <<>> /\ LoginBind(e2, p2) = <<>>) =>
            /\ SameAnswer(LoginAnswer(e1, p1), LoginAnswer(e2, p2))
            /\ LoginAnswer(e1, p1).status = 401
    /\ \A e \in Emails, p \in Passwords :
        LoginBind(e, p) # <<>> =>
            LoginAnswer(e, p) = [status |-> 400, error |-> LoginBind(e, p), doc |-> 0]
    /\ (last.op = "login" /\ last.status = 400) => ~last.touched

\* a wrong-password login has been answered while some well-formed email has
\* no account
C3_Witness ==
    /\ last.op = "login" /\ last.status = 401
    /\ WrongPasswordLogin(last.email, last.password)
    /\ \E e \in ValidEmails : ~HasEmail(e)

\* C8: a login with the email and password of an account register created
\* is answered 200 with an access and a refresh token whose sub is the id
\* register reported for that account.
C8_RegisterThenLogin ==
    \A i \in 1..Len(users) :
        (/\ last.op = "login"
         /\ last.email = users[i].email
         /\ last.password = users[i].password.of) =>
            /\ last.status = 200
            /\ last.access.claims.sub = Str(MarshalInsertedID(users[i]._id))
            /\ last.refresh.claims.sub = Str(MarshalInsertedID(users[i]._id))

-----------------------------------------------------------------------------
(* Claims about tokens (SpecTokens, SpecIssue) *)

TokenOps == {"getProfile", "updateProfile", "refresh"}

\* t is exactly what signing its claims under its header with the secret gives
SignedWithSecret(t) == t = SignedString(t.alg, jwtSecret, t.claims)

\* C4: the gate and refresh accept a token only if generateTokens issued it
\* or it was signed again with the secret; an issued token whose claims or
\* signature text were changed without the secret is rejected.
C4_NoAcceptanceWithoutSecret ==
    (last.op \in TokenOps /\ last.verified) =>
        (last.token \in issued \/ SignedWithSecret(last.token))

\* C5: the gate and refresh accept no token whose header declares a method
\* other than HS256.
C5_OnlyHS256Accepted ==
    (last.op \in TokenOps /\ last.verified) => last.token.alg = "HS256"

\* C6: an issued token is accepted at time t exactly when t < exp, and no
\* token at all is accepted at t >= exp.
C6_ExpiryIsStrict ==
    last.op \in TokenOps =>
        /\ last.token \in issued =>
               (last.verified <=> last.now < last.token.claims.exp)
        /\ last.verified => last.now < last.token.claims.exp

\* an issued token was presented at the very second of its expiry
C6_Witness ==
    /\ last.op \in TokenOps /\ last.token \in issued
    /\ last.now = last.token.claims.exp
    /\ last.status = 401

\* C7: behind the gate the handler runs only for a verified token; every
\* other request ends with status 401, without the handler and without a
\* store call.
C7_GateShortCircuits ==
    last.op \in GateOps =>
        /\ last.handlerRan => last.verified
        /\ ~last.verified =>
               (last.status = 401 /\ ~last.handlerRan /\ ~last.touched)

Issuing == last.op \in {"login", "refresh"} /\ last.status = 200

\* C9 (as stated): both tokens of a pair verify and carry the identity they
\* were issued for, and exp - iat is exactly 15 minutes for the access token
\* and exactly 7 days for the refresh token.
C9_ExactLifetimes ==
    Issuing =>
        /\ last.access.claims.exp - last.access.claims.iat = AccessTTL
        /\ last.refresh.claims.exp - last.refresh.claims.iat = RefreshTTL

IssuedFor(t) ==
    IF last.op = "login"
    THEN \E i \in 1..Len(users) :
            /\ users[i].email = last.email
            /\ t.claims.sub = Str(DecodeID(users[i]._id))
            /\ t.claims.email = Str(users[i].email)
            /\ t.claims.role = Str(users[i].role)
    ELSE /\ t.claims.sub = last.token.claims.sub
         /\ t.claims.email = last.token.claims.email
         /\ t.claims.role = last.token.claims.role

\* C9 (amended): both tokens of a pair verify and carry the identity they
\* were issued for; exp - iat is 15 minutes (7 days) less the whole seconds
\* that passed between the clock reading for exp and the later one for iat,
\* so never more than 15 minutes (7 days) and exactly that only when both
\* readings fall in the same second.
C9_LifetimesUpToClockReadings ==
    Issuing =>
        /\ Parse(last.access, jwtSecret, last.reads[4]) = "valid"
        /\ Parse(last.refresh, jwtSecret, last.reads[4]) = "valid"
        /\ IssuedFor(last.access) /\ IssuedFor(last.refresh)
        /\ last.access.claims.exp - last.access.claims.iat
               = AccessTTL - (last.reads[3] - last.reads[1])
        /\ last.refresh.claims.exp - last.refresh.claims.iat
               = RefreshTTL - (last.reads[4] - last.reads[2])
        /\ last.access.claims.exp - last.access.claims.iat <= AccessTTL
        /\ last.refresh.claims.exp - last.refresh.claims.iat <= RefreshTTL

\* a pair was issued while the clock moved between the readings
C9_Witness ==
    /\ Issuing
    /\ last.access.claims.exp - last.access.claims.iat < AccessTTL
    /\ last.refresh.claims.exp - last.refresh.claims.iat < RefreshTTL

\* C10: a refresh whose token verifies is answered 200 with a new pair that
\* carries the sub, email and role of the presented token and times taken
\* at the refresh; a refresh whose token does not verify is answered 401 and
\* issues nothing.
C10_RefreshReissuesOrRejects ==
    last.op = "refresh" =>
        /\ last.verified =>
               /\ last.status = 200
               /\ IssuedFor(last.access) /\ IssuedFor(last.refresh)
               /\ last.access.claims.iat >= last.now
               /\ last.access.claims.exp >= last.now + AccessTTL
        /\ (~last.verified /\ last.status # 400) =>
               (last.status = 401 /\ last.access = NullToken
                /\ last.refresh = NullToken)

-----------------------------------------------------------------------------
(* Claims about statelessness and refresh (SpecTokens) *)

\* C11: in every state the service can reach, whatever requests came before
\* and whatever the store holds, every token generateTokens has returned is
\* signed under the secret the service holds now, and the gate and the parser
\* behind refresh accept it exactly when the clock is before its exp.
C11_ValidityIsStateless ==
    \A t \in issued :
        /\ t = SignedString("HS256", jwtSecret, t.claims)
        /\ authMiddleware("bearer", t, jwtSecret, clock).pass
               <=> clock < t.claims.exp
        /\ (Parse(t, jwtSecret, clock) = "valid") <=> clock < t.claims.exp

\* a logout has been answered and a token issued before it is still accepted
\* by the gate, while the store holds no document the token's sub selects
C11_Witness ==
    /\ last.op = "logout"
    /\ \E t \in issued :
          /\ authMiddleware("bearer", t, jwtSecret, clock).pass
          /\ FindByID(IDFilter(GetString(t.claims.sub))) = 0

IsRefreshToken(t) == t.claims.exp - t.claims.iat > AccessTTL

PairVerifies(pair, now) ==
    /\ Parse(pair.access, jwtSecret, now) = "valid"
    /\ Parse(pair.refresh, jwtSecret, now) = "valid"

-----------------------------------------------------------------------------
(* Claims about the gate's answers (SpecTokens) *)

\* the gate's answer to a request without an Authorization header
MissingAnswer == authMiddleware("absent", NullToken, jwtSecret, clock)

\* the gate's answer to issued token t carrying a signature made with
\* another key
TamperedAnswer(t) ==
    authMiddleware("bearer", ReSign(t, "HS256", OtherKey), jwtSecret, clock)

\* C13: GET profile is answered 401 in three different ways: without a
\* header, with a token whose signature was tampered with, and with a token
\* that is validly signed but expired.
C13_ThreeErrorKinds ==
    /\ MissingAnswer.status = 401
    /\ \A t \in issued :
          /\ TamperedAnswer(t).status = 401
          /\ TamperedAnswer(t).error # MissingAnswer.error
    /\ (/\ last.op = "getProfile" /\ last.header = "bearer"
        /\ last.token \in issued /\ last.now >= last.token.claims.exp) =>
           /\ last.status = 401
           /\ last.error # MissingAnswer.error
           /\ last.error # TamperedAnswer(last.token).error

-----------------------------------------------------------------------------
(* Claims about the request context (SpecGate) *)

\* what authMiddleware sets for token t
OwnClaims(t) ==
    [user_id |-> t.claims.sub, email |-> t.claims.email, role |-> t.claims.role]

\* C14: while protected requests are served together, the context each
\* waiting handler will read holds the sub, email and role of the token of
\* its own request; the handler that ran last saw those of its own token;
\* and a request the gate rejected saw and left nothing in its context, also
\* when the context had served another request before.
C14_ContextIsPerRequest ==
    /\ \A k \in 1..MaxInFlight :
          ctxs[k].state = "gated" => ContextKeys(k) = OwnClaims(ctxs[k].token)
    /\ (last.op \in GateOps /\ last.handlerRan) =>
           last.ctx = OwnClaims(last.token)
    /\ (last.op \in GateOps /\ ~last.verified) => last.ctx = NoContext

\* a handler has answered while a request carrying another account's token
\* was between the gate and its handler
C14_Witness ==
    /\ last.op \in GateOps /\ last.handlerRan
    /\ \E k \in 1..MaxInFlight :
          /\ ctxs[k].state = "gated"
          /\ ctxs[k].token.claims.sub # last.token.claims.sub

-----------------------------------------------------------------------------
(* Claims about accounts and profiles (SpecProfile, SpecTokens) *)

ClaimStrings(t) == {t.claims.sub.val, t.claims.email.val, t.claims.role.val}

\* the strings a response carries: the error text, the user_id of register,
\* the claims of the tokens and the fields of the User
BodyStrings(l) ==
    {l.error[i] : i \in 1..Len(l.error)}
    \cup {l.user_id}
    \cup ClaimStrings(l.access) \cup ClaimStrings(l.refresh)
    \cup {l.profile.id, l.profile.email, l.profile.role, l.profile.name}

\* C15: no response carries a plaintext password or a password member (the
\* User in a profile response has no such member, the tokens have no such
\* claim), and every credential in the store, and in every insert under
\* way, is an output of the hasher.
C15_NoCredentialLeaves ==
    /\ BodyStrings(last) \cap Passwords = {}
    /\ "password" \notin DOMAIN last.profile
    /\ DOMAIN last.access.claims = {"sub", "email", "role", "exp", "iat"}
    /\ DOMAIN last.refresh.claims = {"sub", "email", "role", "exp", "iat"}
    /\ \A i \in 1..Len(users) :
          users[i].password \in {GenerateFromPassword(p) : p \in Passwords}
    /\ \A r \in BagToSet(reg) :
          r.password \in {GenerateFromPassword(p) : p \in Passwords}

\* a profile has been returned for an account whose hash the store holds
C15_Witness ==
    /\ last.op = "getProfile" /\ last.status = 200
    /\ \E i \in 1..Len(users) :
          /\ last.profile = MarshalUser(users[i])
          /\ users[i].password = GenerateFromPassword("other1234")

\* the accounts whose id, as register reported it and as login put it in the
\* token, is the sub of t
Subjects(t) ==
    {i \in 1..Len(users) : Str(MarshalInsertedID(users[i]._id)) = t.claims.sub}

\* C16: GET profile with a token that login issued for an account is
\* answered 200 with that account's profile, and 404 only when the store
\* holds no account whose id is the token's sub.
C16_ProfileOfRegisteredAccount ==
    (last.op = "getProfile" /\ last.handlerRan /\ last.token \in issued) =>
        /\ Subjects(last.token) # {} =>
               /\ last.status = 200
               /\ \E i \in Subjects(last.token) : last.profile = MarshalUser(users[i])
        /\ last.status = 404 => Subjects(last.token) = {}

\* the document the filter of getProfile and updateProfile selects for t, 0
\* if none
Resolves(t) == FindByID(IDFilter(GetString(t.claims.sub)))

\* C17: updateProfile with a verified token whose sub selects no account is
\* answered 404 and changes nothing; it is answered 200 only when the sub
\* selects an account.
C17_UpdateOfMissingAccount ==
    (last.op = "updateProfile" /\ last.handlerRan) =>
        /\ Resolves(last.token) = 0 => (last.status = 404 /\ ~last.changed)
        /\ last.status = 200 => Resolves(last.token) # 0

\* the fields of an account that are set once
Frozen(u) ==
    [_id |-> u._id, email |-> u.email, password |-> u.password, role |-> u.role,
     active |-> u.active, created_at |-> u.created_at]

\* C18: no step removes an account or changes the id, email, credential
\* hash, role, active flag or created_at of one; a name changes only in a
\* step of updateProfile, and only on the account the sub of the request's
\* token selects.
C18_AccountFieldsImmutable ==
    [][/\ Len(users') >= Len(users)
       /\ \A i \in 1..Len(users) :
             /\ Frozen(users'[i]) = Frozen(users[i])
             /\ users'[i].name # users[i].name =>
                    /\ last'.op = "updateProfile" /\ last'.verified
                    /\ users[i]._id = IDFilter(GetString(last'.token.claims.sub))
                    /\ users'[i].name = last'.name]_vars

\* updateProfile has changed the name of one account while the store holds
\* another
C18_Witness ==
    /\ last.op = "updateProfile" /\ last.status = 200 /\ last.changed
    /\ Len(users) > 1
    /\ \E i \in 1..Len(users) : users[i].name = last.name
    /\ \E i \in 1..Len(users) : users[i].name # last.name

-----------------------------------------------------------------------------
(* Claims about store failures (SpecStore) *)

StoreOps == {"register", "login", "getProfile", "updateProfile"}

\* C19: a request whose store call failed because the store could not be
\* reached is answered with an error of its own, not with the 409 of a
\* duplicate account, the 401 of invalid credentials or the 404 of a missing
\* account.
C19_StoreUnavailableIsDistinct ==
    (last.op \in StoreOps /\ last.storeErr) =>
        /\ last.status \notin {409, 401, 404}
        /\ last.error \notin {<<"Email already exists">>, <<"Invalid credentials">>,
                               <<"User not found">>}

-----------------------------------------------------------------------------
(* Claims about register's validation (SpecAccounts) *)

\* a register body the claim says must be refused
BadRegistration(e, p, n) ==
    ~IsEmail(e) \/ n = "" \/ PasswordLen(p) < RegisterMinPassword

\* C20: register refuses a malformed email, a missing name and a password
\* under 8 characters with 400 before it hashes or calls the store, so no
\* account and no insert under way comes from such a body and the store
\* holds exactly the accounts of the requests answered 201; every account
\* has role customer and is active.
C20_RegisterValidates ==
    /\ \A e \in Emails, p \in Passwords, n \in RegNames :
          BadRegistration(e, p, n) => RegisterBind(e, p, n) # <<>>
    /\ (last.op = "register" /\ last.status = 400) =>
           (~last.touched /\ ~last.changed /\ last.error # <<>>)
    /\ \A i \in 1..Len(users) :
          /\ ~BadRegistration(users[i].email, users[i].password.of, users[i].name)
          /\ users[i].role = "customer"
          /\ users[i].active = TRUE
    /\ \A r \in BagToSet(reg) : ~BadRegistration(r.email, r.password.of, r.name)
    /\ Len(users) = regStats["a@x.com"].ok + regStats["b@x.com"].ok

\* a register request has been refused with 400 while the store holds an
\* account
C20_Witness ==
    /\ last.op = "register" /\ last.status = 400
    /\ Len(users) > 0

-----------------------------------------------------------------------------
(* Claims about error bodies and crashes (SpecProfile, SpecTokens) *)

\* the error texts that are string literals of the handlers
FixedMessages ==
    {<<"Failed to hash password">>, <<"Email already exists">>,
     <<"Invalid credentials">>, <<"Invalid refresh token">>,
     <<"User not found">>, <<"Failed to update profile">>,
     <<"Missing authorization header">>, <<"Invalid token">>}

\* C21: the error text of every response is one of the fixed messages of
\* the handlers, never the text of an underlying error value.
C21_OnlyFixedErrorTexts ==
    last.error # <<>> => last.error \in FixedMessages

WellTyped(keys) ==
    /\ keys.user_id.type = "string" /\ keys.user_id.val # ""
    /\ keys.email.type = "string" /\ keys.email.val # ""
    /\ keys.role.type = "string" /\ keys.role.val # ""

\* C22: a request to a protected endpoint or to refresh never ends in a
\* panic, whatever its Authorization header and token, and a handler behind
\* the gate runs only on a sub, email and role that are non-empty strings.
C22_NoPanicNoEmptyIdentity ==
    last.op \in TokenOps =>
        /\ ~last.panic
        /\ last.status # 500
        /\ last.handlerRan => WellTyped(last.ctx)

\* C23: the gate admits access tokens only and refresh admits refresh
\* tokens only, so no pair is issued in exchange for an access token.
C23_TokensAcceptedByKind ==
    /\ (last.op \in GateOps /\ last.verified /\ last.token \in issued) =>
           ~IsRefreshToken(last.token)
    /\ (last.op = "refresh" /\ last.verified /\ last.token \in issued) =>
           IsRefreshToken(last.token)

-----------------------------------------------------------------------------
(* Claims about the inventory-service (SpecInventory) *)

\* C24: whatever reserve and release requests were served, with any
\* quantity binding admits, every record has quantity >= 0 and reserved
\* >= 0, and a reserve answered 200 asked for no more than the quantity the
\* record had when it was updated.
C24_StockNeverNegative ==
    /\ \A p \in Products :
          inventory[p].quantity >= 0 /\ inventory[p].reserved >= 0
    /\ (invLast.op = "reserve" /\ invLast.status = 200) =>
           invLast.quantity <= invLast.before.quantity

-----------------------------------------------------------------------------
(* Claims about the cart-service (SpecCart) *)

RECURSIVE ItemsTotal(_)
ItemsTotal(items) ==
    IF items = <<>> THEN 0
    ELSE Head(items).quantity * Head(items).price + ItemsTotal(Tail(items))

\* C25: when no remove-item request is under way, the cart's total is the
\* sum of quantity * price over its items, and a remove-item request on a
\* user without a cart is not answered with an error.
C25_TotalMatchesItems ==
    /\ (cart.exists /\ removing = EmptyBag) => cart.total = ItemsTotal(cart.items)
    /\ (cartLast.op = "remove" /\ ~cartLast.hadCart) => cartLast.status = 200
====
